---- MODULE Spec2Model ----
(***************************************************************************)
(* The polled MMIO handshake of my_new_accelerator                         *)
(* (Pynq-Z1/notebooks/examples/overlay_integration.ipynb): __init__,       *)
(* load_data and process on one side, the accelerator (simulated in the    *)
(* notebook by a cell that writes the output region and the acknowledge)   *)
(* on the other, sharing one register window.                              *)
(***************************************************************************)
EXTENDS Integers, Sequences, FiniteSets, TLC

(* ------------------------------------------------------------------ *)
(* Program constants (notebook code cell 1).  Offsets are byte offsets. *)
ADDRESS_LENGTH == 4096
CMD_OFFSET == 2048
ACK_OFFSET == 2052
INPUT_DATA_OFFSET == 0
OUTPUT_DATA_OFFSET == 1024
IDLE == 0
PROCESS == 1

(* ------------------------------------------------------------------ *)
(* Bounds of the model.                                                 *)
MaxLen == 1
MaxCalls == 3
MaxPolls == 1
MaxCycles == 2

(* The words that are enumerated: the two encodings of the command and   *)
(* acknowledge registers, and one word that is neither.                   *)
Values == {0, 1, 2}


(* Words of the input region (up to the output region), words from the    *)
(* output region to the end of the window, words of the window.           *)
InputWords == (OUTPUT_DATA_OFFSET - INPUT_DATA_OFFSET) \div 4

OutputWords == (ADDRESS_LENGTH - OUTPUT_DATA_OFFSET) \div 4

WindowWords == ADDRESS_LENGTH \div 4

(* Lengths of the payloads longer than MaxLen: the last one that fits    *)
(* the input region and the first one that does not, the last one whose  *)
(* output words all lie in the window and the first one whose do not.     *)
LongLens == {InputWords, InputWords + 1, OutputWords, OutputWords + 1}

MaxPayload == OutputWords + 1

(* The payload of n words longer than MaxLen: word i is i modulo 3. *)
Pattern(n) == [k \in 1..n |-> (k - 1) % 3]

ShortSeqs == UNION {[1..n -> Values] : n \in 0..MaxLen}

(* The payloads handed to load_data. *)
Payloads == ShortSeqs \cup {Pattern(n) : n \in LongLens}

(* ------------------------------------------------------------------ *)
(* MMIO: a window of ADDRESS_LENGTH bytes over word-organised memory.   *)
(* An access outside the window either fails or lands in the memory     *)
(* next to the window, which the model keeps up to TopOffset.           *)
TopOffset == OUTPUT_DATA_OFFSET + 4 * MaxPayload

(* The words of that memory, numbered from 1: word w is at offset 4 * (w - 1). *)
Words == 1..(TopOffset \div 4)

WordOf(offset) == offset \div 4 + 1

InWindow(offset) == offset >= 0 /\ offset < ADDRESS_LENGTH

MMIORead(m, offset) == m[WordOf(offset)]

MMIOWrite(m, offset, value) == [m EXCEPT ![WordOf(offset)] = value]

VARIABLES mem, array_length, pc, input_data, output_data, last, calls,
          polls, trace, dev_out, cycle, hist

vars == <<mem, array_length, pc, input_data, output_data, last, calls,
          polls, trace, dev_out, cycle, hist>>

(* hist: the calls made on the current instance since its construction,   *)
(* in order ("load_data", "process").                                     *)

(* One logged MMIO access of the driver. *)
Acc(op, offset, value) == [op |-> op, offset |-> offset, value |-> value]

(* A new instance over a register window that held anything: __init__    *)
(* has set array_length and the command register, the acknowledge        *)
(* register holds what it held, the data regions hold 0.                 *)
Init ==
    /\ \E a \in Values :
          mem = [w \in Words |-> IF w = WordOf(CMD_OFFSET) THEN IDLE
                                 ELSE IF w = WordOf(ACK_OFFSET) THEN a
                                 ELSE 0] \o <<>>
    /\ array_length = 0
    /\ pc = "idle"
    /\ input_data = <<>>
    /\ output_data = <<>>
    /\ last = "init"
    /\ calls = 0
    /\ polls = 0
    /\ trace = <<Acc("w", CMD_OFFSET, IDLE)>>
    /\ dev_out = <<>>
    /\ cycle = "none"
    /\ hist = <<>>

(* ------------------------------------------------------------------ *)
(* The driver: class my_new_accelerator.                                *)

(* Mutants of InputOffset: the index taken for a byte offset; the base   *)
(* of the output region taken for the base of the input region.          *)
InputOffsetBytes(k) == INPUT_DATA_OFFSET + k

InputOffsetInOutput(k) == OUTPUT_DATA_OFFSET + k * 4

(* INPUT_DATA_OFFSET + i * 4 *)
InputOffset(k) == INPUT_DATA_OFFSET + k * 4

(* Mutant of OutputOffset: the index taken for a byte offset. *)
OutputOffsetBytes(k) == OUTPUT_DATA_OFFSET + k

(* OUTPUT_DATA_OFFSET + i * 4 *)
OutputOffset(k) == OUTPUT_DATA_OFFSET + k * 4

(* [0] * self.array_length *)
Zeros(n) == [k \in 1..n |-> 0]

(* Mutants of AckReceived: any word but 0 ends the polling loop; the     *)
(* word 0 ends it.                                                        *)
AckNonZero(v) == v # 0

AckIsZero(v) == v = 0

(* The polling loop ends on a read of 0x1. *)
AckReceived(v) == v = 1

(* The value process() writes to the acknowledge register. *)
AckReset == 0

(* for i in range(lo, hi): mmio.write(INPUT_DATA_OFFSET + i * 4, data[i]) *)
(* The passes run in index order: those below mid are done (half is       *)
(* computed) before those from mid on start.                              *)
RECURSIVE LoadWrites(_, _, _, _)
LoadWrites(m, data, lo, hi) ==
    IF hi <= lo THEN m
    ELSE IF hi = lo + 1 THEN MMIOWrite(m, InputOffset(lo), data[lo + 1])
    ELSE LET mid == (lo + hi) \div 2
             half == LoadWrites(m, data, lo, mid)
         IN  IF Len(half) = Len(m) THEN LoadWrites(half, data, mid, hi)
             ELSE half

(* The accesses of that loop, in the order it makes them. *)
LoadAccesses(data, k) ==
    [j \in 1..k |-> Acc("w", InputOffset(j - 1), data[j])]

(* Mutant of DrainReads: the loop stops one word early. *)
DrainReadsShort(m, buf, k) ==
    [j \in 1..Len(buf) |->
        IF j <= k - 1 THEN MMIORead(m, OutputOffset(j - 1)) ELSE buf[j]]

(* for i in range(k): output_data[i] = mmio.read(OUTPUT_DATA_OFFSET + i * 4) *)
DrainReads(m, buf, k) ==
    [j \in 1..Len(buf) |->
        IF j <= k THEN MMIORead(m, OutputOffset(j - 1)) ELSE buf[j]]

(* The accesses of that loop, in the order it makes them. *)
DrainAccesses(m, k) ==
    [j \in 1..k |-> Acc("r", OutputOffset(j - 1), MMIORead(m, OutputOffset(j - 1)))]

(* The first pass of a loop of n passes whose offset is outside the       *)
(* window; n when there is none.                                          *)
FirstOutside(base, n) ==
    IF n > 0 /\ ~InWindow(base + (n - 1) * 4)
    THEN IF InWindow(base) THEN (ADDRESS_LENGTH - base + 3) \div 4 ELSE 0
    ELSE n

(* Mutants of Construct: the command register is not written;           *)
(* array_length is not set.                                               *)
ConstructNoCommand ==
    /\ pc = "idle"
    /\ calls < MaxCalls
    /\ calls' = calls + 1
    /\ array_length' = 0
    /\ trace' = <<>>
    /\ pc' = "idle"
    /\ last' = "init"
    /\ cycle' = "none"
    /\ hist' = <<>>
    /\ UNCHANGED <<mem, input_data, output_data, polls, dev_out>>

ConstructKeepsLength ==
    /\ pc = "idle"
    /\ calls < MaxCalls
    /\ calls' = calls + 1
    /\ mem' = MMIOWrite(mem, CMD_OFFSET, IDLE)
    /\ trace' = <<Acc("w", CMD_OFFSET, IDLE)>>
    /\ pc' = "idle"
    /\ last' = "init"
    /\ cycle' = "none"
    /\ hist' = <<>>
    /\ UNCHANGED <<array_length, input_data, output_data, polls, dev_out>>

(* Mutant of Construct: the acknowledge register is cleared as well. *)
ConstructResetsAck ==
    /\ pc = "idle"
    /\ calls < MaxCalls
    /\ calls' = calls + 1
    /\ array_length' = 0
    /\ mem' = MMIOWrite(MMIOWrite(mem, CMD_OFFSET, IDLE), ACK_OFFSET, 0)
    /\ trace' = <<Acc("w", CMD_OFFSET, IDLE)>>
    /\ pc' = "idle"
    /\ last' = "init"
    /\ cycle' = "none"
    /\ hist' = <<>>
    /\ UNCHANGED <<input_data, output_data, polls, dev_out>>

(* __init__: array_length = 0, then the command register is set to IDLE. *)
Construct ==
    /\ pc = "idle"
    /\ calls < MaxCalls
    /\ calls' = calls + 1
    /\ array_length' = 0
    /\ mem' = MMIOWrite(mem, CMD_OFFSET, IDLE)
    /\ trace' = <<Acc("w", CMD_OFFSET, IDLE)>>
    /\ pc' = "idle"
    /\ last' = "init"
    /\ cycle' = "none"
    /\ hist' = <<>>
    /\ UNCHANGED <<input_data, output_data, polls, dev_out>>

(* Payloads longer than MaxLen are the first load_data of an instance, or *)
(* the second one when it follows the first at once.                      *)
Loadable(data) ==
    \/ Len(data) <= MaxLen
    \/ last = "init"
    \/ hist = <<"load_data">>

(* Mutant of LoadData: the stored length accumulates over the calls. *)
LoadDataAccumulates(data) ==
    /\ pc = "idle"
    /\ calls < MaxCalls
    /\ Loadable(data)
    /\ calls' = calls + 1
    /\ input_data' = data
    /\ array_length' = array_length + Len(data)
    /\ mem' = LoadWrites(mem, data, 0, Len(data))
    /\ trace' = LoadAccesses(data, Len(data))
    /\ pc' = "idle"
    /\ last' = "load_data"
    /\ cycle' = "loaded"
    /\ hist' = Append(hist, "load_data")
    /\ UNCHANGED <<output_data, polls, dev_out>>

(* load_data(input_data), every write of its loop done.  The payloads of *)
(* the model are shorter than the window, so every write is inside it.   *)
LoadData(data) ==
    /\ pc = "idle"
    /\ calls < MaxCalls
    /\ Loadable(data)
    /\ calls' = calls + 1
    /\ input_data' = data
    /\ array_length' = Len(data)
    /\ mem' = LoadWrites(mem, data, 0, Len(data))
    /\ trace' = LoadAccesses(data, Len(data))
    /\ pc' = "idle"
    /\ last' = "load_data"
    /\ cycle' = "loaded"
    /\ hist' = Append(hist, "load_data")
    /\ UNCHANGED <<output_data, polls, dev_out>>

(* process(): the call, the start command and the result buffer. *)
ProcessCall ==
    /\ pc = "idle"
    /\ calls < MaxCalls
    /\ calls' = calls + 1
    /\ mem' = MMIOWrite(mem, CMD_OFFSET, PROCESS)
    /\ output_data' = Zeros(array_length)
    /\ trace' = <<Acc("w", CMD_OFFSET, PROCESS)>>
    /\ polls' = 0
    /\ pc' = "poll"
    /\ cycle' = IF cycle = "served" THEN "processing" ELSE "none"
    /\ hist' = Append(hist, "process")
    /\ UNCHANGED <<array_length, input_data, last, dev_out>>

(* One read of the acknowledge register by the polling loop.  Reads that  *)
(* fail are logged and counted up to MaxPolls only.                       *)
Poll ==
    /\ pc = "poll"
    /\ LET v == MMIORead(mem, ACK_OFFSET) IN
          IF AckReceived(v)
          THEN /\ pc' = "drain"
               /\ trace' = Append(trace, Acc("r", ACK_OFFSET, v))
               /\ polls' = polls
          ELSE /\ pc' = "poll"
               /\ trace' = IF polls < MaxPolls
                           THEN Append(trace, Acc("r", ACK_OFFSET, v))
                           ELSE trace
               /\ polls' = IF polls < MaxPolls THEN polls + 1 ELSE polls
    /\ UNCHANGED <<mem, array_length, input_data, output_data, last, calls,
                   dev_out, cycle, hist>>

(* Mutants of Drain: the acknowledge is not reset; the acknowledge is    *)
(* reset before the output words are read.                                *)
DrainNoReset ==
    /\ pc = "drain"
    /\ output_data' = DrainReads(mem, output_data, array_length)
    /\ trace' = trace \o DrainAccesses(mem, array_length)
    /\ pc' = "idle"
    /\ last' = "process"
    /\ cycle' = IF cycle = "processing" THEN "returned" ELSE "none"
    /\ UNCHANGED <<mem, array_length, input_data, calls, polls, dev_out, hist>>

DrainResetFirst ==
    /\ pc = "drain"
    /\ mem' = MMIOWrite(mem, ACK_OFFSET, AckReset)
    /\ output_data' = DrainReads(mem', output_data, array_length)
    /\ trace' = Append(trace, Acc("w", ACK_OFFSET, AckReset))
                   \o DrainAccesses(mem', array_length)
    /\ pc' = "idle"
    /\ last' = "process"
    /\ cycle' = IF cycle = "processing" THEN "returned" ELSE "none"
    /\ UNCHANGED <<array_length, input_data, calls, polls, dev_out, hist>>

(* Mutant of Drain: the command register is put back to IDLE on return. *)
DrainIdles ==
    /\ pc = "drain"
    /\ output_data' = DrainReads(mem, output_data, array_length)
    /\ mem' = MMIOWrite(MMIOWrite(mem, ACK_OFFSET, AckReset), CMD_OFFSET, IDLE)
    /\ trace' = Append(trace \o DrainAccesses(mem, array_length),
                       Acc("w", ACK_OFFSET, AckReset))
    /\ pc' = "idle"
    /\ last' = "process"
    /\ cycle' = IF cycle = "processing" THEN "returned" ELSE "none"
    /\ UNCHANGED <<array_length, input_data, calls, polls, dev_out, hist>>

(* Mutant of Drain: the stored length is cleared on return. *)
DrainClearsLength ==
    /\ pc = "drain"
    /\ output_data' = DrainReads(mem, output_data, array_length)
    /\ mem' = MMIOWrite(mem, ACK_OFFSET, AckReset)
    /\ trace' = Append(trace \o DrainAccesses(mem, array_length),
                       Acc("w", ACK_OFFSET, AckReset))
    /\ pc' = "idle"
    /\ last' = "process"
    /\ array_length' = 0
    /\ cycle' = IF cycle = "processing" THEN "returned" ELSE "none"
    /\ UNCHANGED <<input_data, calls, polls, dev_out, hist>>

(* The rest of process() once the acknowledge is received: the read-back  *)
(* loop, the reset of the acknowledge, the return of output_data.         *)
Drain ==
    /\ pc = "drain"
    /\ output_data' = DrainReads(mem, output_data, array_length)
    /\ mem' = MMIOWrite(mem, ACK_OFFSET, AckReset)
    /\ trace' = Append(trace \o DrainAccesses(mem, array_length),
                       Acc("w", ACK_OFFSET, AckReset))
    /\ pc' = "idle"
    /\ last' = "process"
    /\ cycle' = IF cycle = "processing" THEN "returned" ELSE "none"
    /\ UNCHANGED <<array_length, input_data, calls, polls, dev_out, hist>>

(* The read-back loop when a read is outside the window and MMIO fails    *)
(* there: the exception leaves process() before the acknowledge is reset. *)
DrainFault ==
    /\ pc = "drain"
    /\ FirstOutside(OUTPUT_DATA_OFFSET, array_length) < array_length
    /\ LET k == FirstOutside(OUTPUT_DATA_OFFSET, array_length) IN
          /\ output_data' = DrainReads(mem, output_data, k)
          /\ trace' = trace \o DrainAccesses(mem, k + 1)
    /\ pc' = "idle"
    /\ last' = "raised"
    /\ cycle' = "none"
    /\ UNCHANGED <<mem, array_length, input_data, calls, polls, dev_out, hist>>

(* ------------------------------------------------------------------ *)
(* The accelerator, as the notebook simulates it: one word written to   *)
(* OUTPUT_DATA_OFFSET + i * 4 for each word of input_data, in index     *)
(* order, then 1 written to the acknowledge register.  It runs between  *)
(* two calls of the driver or while process() waits for it.             *)

(* for i in range(k): mmio.write(OUTPUT_DATA_OFFSET + i * 4, out[i]) *)
(* OUTPUT_DATA_OFFSET + i * 4, in the cell of the simulated accelerator *)
DeviceOffset(k) == OUTPUT_DATA_OFFSET + k * 4

RECURSIVE DeviceWrites(_, _, _, _)
DeviceWrites(m, out, lo, hi) ==
    IF hi <= lo THEN m
    ELSE IF hi = lo + 1 THEN MMIOWrite(m, DeviceOffset(lo), out[lo + 1])
    ELSE LET mid == (lo + hi) \div 2
             half == DeviceWrites(m, out, lo, mid)
         IN  IF Len(half) = Len(m) THEN DeviceWrites(half, out, mid, hi)
             ELSE half

(* input_data[i] + 1 for every word of input_data *)
DeviceOut(data) == [j \in 1..Len(data) |-> data[j] + 1]

DeviceCell ==
    /\ pc \in {"idle", "poll", "drain"}
    /\ LET out == DeviceOut(input_data) IN
          /\ mem' = MMIOWrite(DeviceWrites(mem, out, 0, Len(out)), ACK_OFFSET, 1)
          /\ dev_out' = out
    /\ cycle' = IF cycle = "loaded" /\ pc = "idle" THEN "served" ELSE "none"
    /\ UNCHANGED <<array_length, pc, input_data, output_data, last, calls,
                   polls, trace, hist>>

(* A write of the loop is outside the window and MMIO fails there: the    *)
(* cell stops before the acknowledge is written.                          *)
DeviceFault ==
    /\ pc \in {"idle", "poll", "drain"}
    /\ FirstOutside(OUTPUT_DATA_OFFSET, Len(input_data)) < Len(input_data)
    /\ mem' = DeviceWrites(mem, DeviceOut(input_data), 0,
                           FirstOutside(OUTPUT_DATA_OFFSET, Len(input_data)))
    /\ cycle' = "none"
    /\ UNCHANGED <<array_length, pc, input_data, output_data, last, calls,
                   polls, trace, dev_out, hist>>

Host ==
    \/ Construct
    \/ \E data \in Payloads : LoadData(data)
    \/ ProcessCall
    \/ Poll
    \/ Drain
    \/ DrainFault

Device ==
    \/ DeviceCell
    \/ DeviceFault

Next == Host \/ Device

Spec == Init /\ [][Next]_vars

(* ------------------------------------------------------------------ *)
(* The driver run against an accelerator in hardware: the host makes    *)
(* cycles of load_data then process() on one instance over a window     *)
(* whose acknowledge register holds 0; the accelerator starts whenever   *)
(* it finds PROCESS in the command register and 0 in the acknowledge     *)
(* register, computes a result for every word of the input region,      *)
(* writes the results to the output region and then 1 to the            *)
(* acknowledge register.                                                 *)

HwInit == Init /\ mem[WordOf(ACK_OFFSET)] = 0

(* load_data(data), opening a cycle. *)
HwLoadData(data) ==
    /\ pc = "idle"
    /\ IF hist = <<>> THEN TRUE ELSE hist[Len(hist)] = "process"
    /\ Len(hist) < 2 * MaxCycles
    /\ Len(data) <= MaxLen
    /\ calls' = calls + 1
    /\ input_data' = data
    /\ array_length' = Len(data)
    /\ mem' = LoadWrites(mem, data, 0, Len(data))
    /\ trace' = LoadAccesses(data, Len(data))
    /\ pc' = "idle"
    /\ last' = "load_data"
    /\ cycle' = "loaded"
    /\ hist' = Append(hist, "load_data")
    /\ UNCHANGED <<output_data, polls, dev_out>>

(* process(), closing the cycle: the call, the start command and the     *)
(* result buffer.                                                         *)
HwProcessCall ==
    /\ pc = "idle"
    /\ hist # <<>> /\ hist[Len(hist)] = "load_data"
    /\ calls' = calls + 1
    /\ mem' = MMIOWrite(mem, CMD_OFFSET, PROCESS)
    /\ output_data' = Zeros(array_length)
    /\ trace' = <<Acc("w", CMD_OFFSET, PROCESS)>>
    /\ polls' = 0
    /\ pc' = "poll"
    /\ cycle' = "processing"
    /\ hist' = Append(hist, "process")
    /\ UNCHANGED <<array_length, input_data, last, dev_out>>

(* The results of the accelerator for the words of the input region. *)
HwOut(m) == [j \in 1..InputWords |-> MMIORead(m, InputOffset(j - 1)) + 1]

(* One run of the accelerator. *)
HwDevice ==
    /\ MMIORead(mem, CMD_OFFSET) = PROCESS
    /\ MMIORead(mem, ACK_OFFSET) = 0
    /\ LET out == HwOut(mem) IN
          /\ mem' = MMIOWrite(DeviceWrites(mem, out, 0, Len(out)), ACK_OFFSET, 1)
          /\ dev_out' = out
    /\ UNCHANGED <<array_length, pc, input_data, output_data, last, calls,
                   polls, trace, cycle, hist>>

HwNext ==
    \/ \E data \in ShortSeqs : HwLoadData(data)
    \/ HwProcessCall
    \/ Poll
    \/ Drain
    \/ HwDevice

HwSpec == HwInit /\ [][HwNext]_vars

(* ------------------------------------------------------------------ *)
(* Properties.                                                          *)

(* The registers and the regions as the claims name them. *)
Cmd(m) == m[CMD_OFFSET \div 4 + 1]

Ack(m) == m[ACK_OFFSET \div 4 + 1]

InputWord(m, k) == m[(INPUT_DATA_OFFSET + 4 * k) \div 4 + 1]

OutputWord(m, k) == m[(OUTPUT_DATA_OFFSET + 4 * k) \div 4 + 1]

(* The steps on which a call of the driver returns. *)
ProcessReturns == pc = "drain" /\ pc' = "idle" /\ last' = "process"

LoadReturns == calls' = calls + 1 /\ pc' = "idle" /\ last' = "load_data"

ConstructReturns == calls' = calls + 1 /\ pc' = "idle" /\ last' = "init"

(* cycle = "returned": load_data(input_data) returned, then the device   *)
(* wrote dev_out[i] to OUTPUT_DATA_OFFSET + 4 * i for every i and 1 to    *)
(* the acknowledge register, then process() ran and has just returned     *)
(* output_data, with no other step in between.                            *)

(* C1 as stated: for every payload, the process() that follows            *)
(* load_data(data) and the device's writes of out and of the acknowledge  *)
(* returns out, word for word and of the payload's length.                *)
C1_AnyLength ==
    cycle = "returned" =>
        /\ Len(output_data) = Len(input_data)
        /\ output_data = dev_out

(* C1, amended: the same for every payload of at most InputWords (256)    *)
(* words, the payloads whose output words lie below the command register. *)
C1_RoundTrip ==
    (cycle = "returned" /\ Len(input_data) <= InputWords) =>
        /\ Len(output_data) = Len(input_data)
        /\ \A k \in 1..Len(input_data) : output_data[k] = dev_out[k]

C1_Witness ==
    /\ cycle = "returned"
    /\ Len(input_data) = InputWords
    /\ output_data = dev_out
    /\ output_data[InputWords] = input_data[InputWords] + 1

(* C2: on the step that returns from process(), the acknowledge register  *)
(* reads 0, whatever the payload and the contents of the regions.         *)
C2_AckResetAtReturn == [][ProcessReturns => Ack(mem') = 0]_vars

C2_Witness ==
    /\ pc = "idle"
    /\ last = "process"
    /\ Len(output_data) > 0
    /\ trace[Len(trace)] = Acc("w", ACK_OFFSET, 0)
    /\ Ack(mem) = 0

(* C3: the command register reads IDLE when the constructor returns, in   *)
(* the first state and on every later construction, whatever the window   *)
(* held, a command register left at PROCESS included.                     *)
C3_IdleAfterInit ==
    /\ Cmd(mem) = 0
    /\ [][ConstructReturns => Cmd(mem') = 0]_vars

(* A second instance built after a process() call of the first one. *)
C3_Witness ==
    /\ pc = "idle"
    /\ last = "init"
    /\ calls > 1
    /\ polls > 0
    /\ trace = <<Acc("w", CMD_OFFSET, 0)>>
    /\ Cmd(mem) = 0

(* The accesses of the log that are reads of the acknowledge register,    *)
(* reads of other offsets, writes of the acknowledge register.            *)
AckReads(t) == {k \in 1..Len(t) : t[k].op = "r" /\ t[k].offset = ACK_OFFSET}

AckWrites(t) == {k \in 1..Len(t) : t[k].op = "w" /\ t[k].offset = ACK_OFFSET}

(* C4: a process() call whose reads of the acknowledge register all       *)
(* return something other than 1 stays in the polling loop: it has read   *)
(* no output word and written no acknowledge, it leaves the loop on no    *)
(* step but one that reads 1, and the next read is always possible (no    *)
(* timeout, no retry limit).                                              *)
C4_PollsUntilAck ==
    /\ [](pc = "poll" =>
            /\ trace[1] = Acc("w", CMD_OFFSET, 1)
            /\ \A k \in 2..Len(trace) : k \in AckReads(trace) /\ trace[k].value # 1
            /\ ENABLED Poll)
    /\ [][(pc = "poll" /\ pc' # "poll") => (Ack(mem) = 1 /\ pc' = "drain")]_vars
    /\ [][pc = "poll" =>
            /\ output_data' = output_data
            /\ trace' # trace =>
                  /\ mem' = mem
                  /\ trace' = Append(trace, Acc("r", ACK_OFFSET, Ack(mem)))]_vars

(* Polling with the retry count exhausted, on a register that holds       *)
(* neither 0 nor 1.                                                       *)
C4_Witness ==
    /\ pc = "poll"
    /\ polls = MaxPolls
    /\ Len(trace) = 1 + MaxPolls
    /\ Ack(mem) = 2

(* The driver's steps inside a call are taken when they can be. *)
FairSpec == Spec /\ WF_vars(Poll) /\ WF_vars(Drain \/ DrainFault)

Returned == pc = "idle" /\ last = "process"

(* From some point on the acknowledge register reads 1 whenever the host  *)
(* polls: the device has written 1 and nothing replaces it before the     *)
(* host reads it.                                                         *)
AckHeld == <>[](pc = "poll" => Ack(mem) = 1)

(* C5 as stated: every started process() call returns, if the             *)
(* acknowledge is eventually 1 and held.                                  *)
C5_AlwaysReturns == [](pc = "poll" => (AckHeld => <>Returned))

(* C5, amended: so does every started process() call whose array_length   *)
(* is at most OutputWords (768), the lengths whose output reads all lie   *)
(* in the window.                                                         *)
C5_ReturnsInWindow ==
    []((pc = "poll" /\ array_length <= OutputWords) => (AckHeld => <>Returned))

(* A call that polled in vain, was acknowledged and returned its words. *)
C5_Witness ==
    /\ Returned
    /\ polls > 0
    /\ array_length = OutputWords
    /\ Len(output_data) = OutputWords
    /\ Ack(mem) = 0

(* C6: when load_data(data) returns, array_length is the payload's        *)
(* length, the word at INPUT_DATA_OFFSET + 4 * i is data[i] for every i,  *)
(* and the writes were made in ascending index order, one per word.       *)
C6_InputLoaded ==
    cycle = "loaded" =>
        /\ array_length = Len(input_data)
        /\ \A k \in 0..(Len(input_data) - 1) : InputWord(mem, k) = input_data[k + 1]
        /\ Len(trace) = Len(input_data)
        /\ \A k \in 0..(Len(input_data) - 1) :
              trace[k + 1] = Acc("w", INPUT_DATA_OFFSET + 4 * k, input_data[k + 1])

C6_Witness ==
    /\ cycle = "loaded"
    /\ array_length = OutputWords + 1
    /\ InputWord(mem, OutputWords) = input_data[OutputWords + 1]
    /\ InputWord(mem, 1) # InputWord(mem, 2)

(* The words of the output region: from OUTPUT_DATA_OFFSET up to the      *)
(* command register.                                                      *)
OutputRegion == 0..((CMD_OFFSET - OUTPUT_DATA_OFFSET) \div 4 - 1)

(* What load_data must leave alone. *)
LoadFrame ==
    /\ Cmd(mem') = Cmd(mem)
    /\ Ack(mem') = Ack(mem)
    /\ \A k \in OutputRegion : OutputWord(mem', k) = OutputWord(mem, k)

(* C7 as stated: load_data leaves the command register, the acknowledge   *)
(* register and every word of the output region as they were, for a       *)
(* payload of any length.                                                 *)
C7_AnyLength == [][LoadReturns => LoadFrame]_vars

(* C7, amended: it does for every payload of at most InputWords (256)     *)
(* words.                                                                 *)
C7_LoadFrame ==
    [][(LoadReturns /\ Len(input_data') <= InputWords) => LoadFrame]_vars

(* A payload loaded over an output region, an acknowledge and a command  *)
(* that are set.                                                          *)
C7_Witness ==
    /\ cycle = "loaded"
    /\ Len(input_data) > 0
    /\ InputWord(mem, 0) = input_data[1]
    /\ Cmd(mem) = 1
    /\ Ack(mem) = 1
    /\ OutputWord(mem, 0) # 0

(* C8 as stated: a process() called with no load_data since the           *)
(* construction or since the previous process() returned runs with        *)
(* array_length 0 and returns the empty sequence.                         *)
C8_EveryCycle ==
    /\ []((pc # "idle" /\ last \in {"init", "process"}) => array_length = 0)
    /\ [][(ProcessReturns /\ last \in {"init", "process"}) =>
            output_data' = <<>>]_vars

(* C8, amended: that holds of a process() called with no load_data since  *)
(* the construction; every process() leaves array_length as it was and    *)
(* returns array_length words, so one called after an earlier process()   *)
(* with no load_data in between returns as many words as the last         *)
(* load_data loaded.                                                      *)
C8_FirstCycle ==
    /\ []((pc # "idle" /\ last = "init") => array_length = 0)
    /\ [][(ProcessReturns /\ last = "init") => output_data' = <<>>]_vars
    /\ [][pc # "idle" => array_length' = array_length]_vars
    /\ [][ProcessReturns => Len(output_data') = array_length]_vars

(* A second instance, built after words were loaded, whose first          *)
(* process() has returned nothing.                                        *)
C8_Witness ==
    /\ Returned
    /\ calls = 3
    /\ Len(input_data) > 0
    /\ array_length = 0
    /\ output_data = <<>>

(* C9 as stated: every offset the driver has passed to an MMIO read or    *)
(* write is a multiple of 4 in [0, ADDRESS_LENGTH).                       *)
C9_AnyLength ==
    \A k \in 1..Len(trace) :
        /\ trace[k].offset % 4 = 0
        /\ trace[k].offset >= 0
        /\ trace[k].offset < ADDRESS_LENGTH

(* C9, amended: every such offset is a multiple of 4 and at least 0, and  *)
(* it is below ADDRESS_LENGTH when the payload has at most OutputWords    *)
(* (768) words.                                                           *)
C9_OffsetsInWindow ==
    \A k \in 1..Len(trace) :
        /\ trace[k].offset % 4 = 0
        /\ trace[k].offset >= 0
        /\ array_length <= OutputWords => trace[k].offset < ADDRESS_LENGTH

(* The last word of the window read by a process() of OutputWords words. *)
C9_Witness ==
    /\ Returned
    /\ array_length = OutputWords
    /\ \E k \in 1..Len(trace) :
          trace[k].op = "r" /\ trace[k].offset = ADDRESS_LENGTH - 4

(* C10: the log of a process() call that has returned is one write of     *)
(* PROCESS to the command register, reads of the acknowledge register of  *)
(* which the last one alone returned 1, the reads of the output words     *)
(* 0 .. array_length - 1 in that order, one write of 0 to the             *)
(* acknowledge register; while it runs, the log is a prefix of that.      *)
C10_AccessOrder ==
    /\ pc = "drain" =>
          /\ Len(trace) = polls + 2
          /\ trace[Len(trace)] = Acc("r", ACK_OFFSET, 1)
    /\ (pc \in {"poll", "drain"} \/ Returned) =>
          /\ trace[1] = Acc("w", CMD_OFFSET, 1)
          /\ \A k \in 2..(polls + 1) :
                k \in AckReads(trace) /\ trace[k].value # 1
    /\ Returned =>
          /\ Len(trace) = polls + array_length + 3
          /\ trace[polls + 2] = Acc("r", ACK_OFFSET, 1)
          /\ \A k \in 0..(array_length - 1) :
                /\ trace[polls + 3 + k].op = "r"
                /\ trace[polls + 3 + k].offset = OUTPUT_DATA_OFFSET + 4 * k
                /\ trace[polls + 3 + k].value = output_data[k + 1]
          /\ trace[Len(trace)] = Acc("w", ACK_OFFSET, 0)
          /\ AckWrites(trace) = {Len(trace)}

C10_Witness ==
    /\ Returned
    /\ polls = MaxPolls
    /\ array_length = InputWords + 1
    /\ Len(trace) = MaxPolls + InputWords + 4

(* The last k calls made on the current instance. *)
LastCalls(k) == SubSeq(hist, Len(hist) - k + 1, Len(hist))

(* C11: last write wins, with no accumulation.  When load_data(b) returns *)
(* and the call before it was load_data(a), with no process() in between, *)
(* array_length is len(b), whatever len(a) was, and the word at           *)
(* INPUT_DATA_OFFSET + 4 * i is b[i] for every i < len(b); the process()  *)
(* that follows returns exactly len(b) words.                             *)
C11_LastWriteWins ==
    /\ [][(LoadReturns /\ last = "load_data") =>
            /\ array_length' = Len(input_data')
            /\ \A k \in 0..(Len(input_data') - 1) :
                  InputWord(mem', k) = input_data'[k + 1]]_vars
    /\ []((Len(hist) >= 2 /\ LastCalls(2) = <<"load_data", "load_data">>) =>
            array_length = Len(input_data))
    /\ []((Len(hist) >= 3 /\ Returned
             /\ LastCalls(3) = <<"load_data", "load_data", "process">>) =>
            Len(output_data) = Len(input_data))

(* A payload of 257 words, then one of one word, then process(): one     *)
(* word is returned, and word 1 of the input region is still the first    *)
(* payload's.                                                             *)
C11_Witness ==
    /\ Returned
    /\ hist = <<"load_data", "load_data", "process">>
    /\ array_length = 1
    /\ Len(output_data) = 1
    /\ InputWord(mem, 0) = input_data[1]
    /\ InputWord(mem, InputWords) = 1

(* C12: against the accelerator in hardware, every process() returns the  *)
(* accelerator's function (one more than the word) applied, word by word, *)
(* to the payload of the most recent load_data: never words computed from *)
(* an earlier payload, never on an acknowledge raised for an earlier      *)
(* command.                                                               *)
C12_FreshResults == Returned => output_data = DeviceOut(input_data)

(* C13: the driver writes IDLE to the command register in the            *)
(* constructor only.  The command write of process() leaves PROCESS in    *)
(* the register, and with payloads of at most InputWords (256) words no   *)
(* step but a construction changes a register that reads PROCESS: not the *)
(* rest of process() and its return, not a later load_data, not the       *)
(* accelerator.                                                           *)
C13_CommandStaysProcess ==
    /\ [][(pc = "idle" /\ pc' = "poll") => Cmd(mem') = PROCESS]_vars
    /\ [][(/\ Cmd(mem) = PROCESS
           /\ ~ConstructReturns
           /\ Len(input_data) <= InputWords
           /\ Len(input_data') <= InputWords) => Cmd(mem') = PROCESS]_vars
    /\ [](pc \in {"poll", "drain"} /\ Len(input_data) <= InputWords =>
            Cmd(mem) = PROCESS)

(* A load_data made after a process() of the same instance has returned:  *)
(* the command register still reads PROCESS.                              *)
C13_Witness ==
    /\ pc = "idle"
    /\ hist = <<"load_data", "process", "load_data">>
    /\ Len(input_data) > 0
    /\ InputWord(mem, 0) = input_data[1]
    /\ Ack(mem) = 0
    /\ Cmd(mem) = PROCESS

(* A step of the driver inside process(): the call with its command      *)
(* write, a read of the polling loop, the read-back with the reset and    *)
(* the return, or the read-back that raises.                              *)
ProcessStep ==
    /\ pc # "idle" \/ pc' # "idle"
    /\ pc' # pc \/ trace' # trace

(* C14: process() writes the command and acknowledge registers only: each *)
(* of its steps leaves array_length and every other word of the window,   *)
(* the input and output regions included, as they were.  Every process()  *)
(* returns array_length words, and the second of two consecutive          *)
(* process() calls, with no load_data in between, returns array_length    *)
(* words again: the words found at OUTPUT_DATA_OFFSET + 4 * i when it     *)
(* reads them.                                                            *)
C14_ProcessFrame ==
    /\ [][ProcessStep =>
            /\ array_length' = array_length
            /\ \A k \in 0..(InputWords - 1) : InputWord(mem', k) = InputWord(mem, k)
            /\ \A k \in OutputRegion : OutputWord(mem', k) = OutputWord(mem, k)
            /\ \A w \in Words \ {CMD_OFFSET \div 4 + 1, ACK_OFFSET \div 4 + 1} :
                  mem'[w] = mem[w]]_vars
    /\ [][ProcessReturns =>
            /\ Len(output_data') = array_length
            /\ Len(output_data') = array_length']_vars
    /\ [][(ProcessReturns /\ Len(hist) >= 2
             /\ LastCalls(2) = <<"process", "process">>) =>
            \A k \in 0..(array_length - 1) :
                output_data'[k + 1] = OutputWord(mem, k)]_vars

(* load_data of 256 words, then two process() calls: the second one has   *)
(* returned the 256 words the accelerator wrote.                          *)
C14_Witness ==
    /\ Returned
    /\ hist = <<"load_data", "process", "process">>
    /\ array_length = InputWords
    /\ Len(output_data) = InputWords
    /\ InputWord(mem, 1) = 1
    /\ OutputWord(mem, 1) = 2
    /\ output_data[2] = 2

(* The first read of the polling loop, finding 1. *)
FirstRead == Poll /\ pc' = "drain" /\ Len(trace') = 2

(* C15: the constructor sets array_length to 0 and writes the command     *)
(* register only: the acknowledge register and every word of the input    *)
(* and output regions keep their values.  The command write of process()  *)
(* leaves the acknowledge as well, so an acknowledge that read 1 before   *)
(* the construction still reads 1 when the polling loop starts: the loop  *)
(* ends on its first read and process() returns, by steps of the driver   *)
(* alone.                                                                 *)
C15_ConstructFrame ==
    /\ [][ConstructReturns =>
            /\ array_length' = 0
            /\ Ack(mem') = Ack(mem)
            /\ \A k \in 0..(InputWords - 1) : InputWord(mem', k) = InputWord(mem, k)
            /\ \A k \in OutputRegion : OutputWord(mem', k) = OutputWord(mem, k)
            /\ \A w \in Words \ {CMD_OFFSET \div 4 + 1} : mem'[w] = mem[w]]_vars
    /\ [][(pc = "idle" /\ pc' = "poll") =>
            /\ Ack(mem') = Ack(mem)
            /\ polls' = 0
            /\ Len(trace') = 1]_vars
    /\ []((pc = "poll" /\ polls = 0 /\ Len(trace) = 1 /\ Ack(mem) = 1) =>
            ENABLED FirstRead)
    /\ [][(pc = "poll" /\ Ack(mem) = 1 /\ ProcessStep) =>
            /\ pc' = "drain"
            /\ polls' = polls
            /\ trace' = Append(trace, Acc("r", ACK_OFFSET, 1))]_vars
    /\ [](pc = "drain" => ENABLED Drain)
    /\ []((Returned /\ hist = <<"process">> /\ polls = 0) =>
            /\ output_data = <<>>
            /\ trace = <<Acc("w", CMD_OFFSET, PROCESS), Acc("r", ACK_OFFSET, 1),
                         Acc("w", ACK_OFFSET, 0)>>)

(* load_data([2]), a construction, then process(): the acknowledge read 1 *)
(* before the payload was loaded and the accelerator has not run since    *)
(* (word 0 of the output region is still 0); the process() of the new     *)
(* instance has returned after one read of the acknowledge.               *)
C15_Witness ==
    /\ Returned
    /\ hist = <<"process">>
    /\ calls = 3
    /\ input_data = <<2>>
    /\ InputWord(mem, 0) = 2
    /\ OutputWord(mem, 0) = 0
    /\ array_length = 0
    /\ polls = 0
    /\ Len(trace) = 3
    /\ output_data = <<>>

====
